---- MODULE Spec2Model ----
(***************************************************************************)
(* Model of the signal fusion and backtesting core of smart_money_flow:    *)
(*   src/analyzers/signal_engine.py  SignalEngine.aggregate_signals        *)
(*                                   SignalEngine.generate_*_signal        *)
(*   src/analyzers/backtester.py     Backtester                            *)
(*                                                                         *)
(* Arithmetic is exact.  Strengths and weights are held in twentieths     *)
(* (0.05), a weighted score in units of 1/800 (so that the 1.5 bonus       *)
(* stays an integer), and every quotient (confidence, return, win rate,    *)
(* profit factor) as a pair <<numerator, denominator>> that is compared    *)
(* by cross-multiplication.                                                *)
(***************************************************************************)
EXTENDS Integers, Sequences, FiniteSets, TLC

VARIABLES
    phase,        \* which operation the current run is in
    ticker,       \* aggregate_signals: argument `ticker`
    components,   \* aggregate_signals: argument `components`
    buy_score,    \* aggregate_signals: local buy_score at return
    sell_score,   \* aggregate_signals: local sell_score at return
    trading_signal, \* aggregate_signals: the returned TradingSignal or None
    second_signal, \* what a second aggregate_signals call on the same list returns
    clock,        \* the time datetime.now() reads, in ticks
    gen_call,     \* generate_*_signal: which generator was called, its arguments
    gen_result,   \* generate_*_signal: how the call ended, the returned component
    signals,      \* backtest_signals: argument `signals`
    results,      \* backtest_signals: local list `results`
    self_results, \* Backtester.results
    price_cache,  \* Backtester.price_cache
    now,          \* the date datetime.now() falls on
    calls,        \* history: one entry per backtest_signal call made so far
    sum_results,  \* generate_summary: argument `results`
    summary,      \* generate_summary: the returned BacktestSummary
    rank_signals, \* analyze_and_generate_signals: local list `signals`
    top_signals,  \* analyze_and_generate_signals: the returned list
    institutions, \* the rows of table institutions, as the session sees them
    repo_calls,   \* history: one entry per get_or_create_institution call
    coll_call,    \* get_all_house_trades: the configuration and the sources' answers
    coll_result,  \* get_all_house_trades: the sources tried and what was returned
    mono,         \* the time time.monotonic() reads, in ticks
    timestamps,   \* RateLimiter.timestamps
    lock,         \* RateLimiter._lock: the caller that holds it, or None
    callers,      \* for each caller of wait / wait_async, where it is in the call
    admitted      \* history: every timestamp appended to RateLimiter.timestamps

aggVars ==
    <<ticker, components, buy_score, sell_score, trading_signal, second_signal, clock>>

genVars == <<gen_call, gen_result>>

btVars == <<signals, results, self_results, price_cache, now, calls>>

sumVars == <<sum_results, summary>>

rankVars == <<rank_signals, top_signals>>

repoVars == <<institutions, repo_calls>>

collVars == <<coll_call, coll_result>>

limVars == <<mono, timestamps, lock, callers, admitted>>

\* the state of the parts around the fusion and backtesting core
ioVars == <<rankVars, repoVars, collVars, limVars>>

vars == <<phase, aggVars, genVars, btVars, sumVars, ioVars>>

\* Optional values: None is the empty tuple, a present value v is <<v>>
None == <<>>
Some(v) == <<v>>
Val(o) == o[1]

(***************************************************************************)
(* Rationals as pairs <<n, d>>, d # 0.                                     *)
(***************************************************************************)
Abs(x) == IF x < 0 THEN -x ELSE x

RSign(r) == IF r[2] > 0 THEN r[1] ELSE -r[1]

RLess(a, b) ==
    IF (a[2] > 0) = (b[2] > 0) THEN a[1] * b[2] < b[1] * a[2]
    ELSE a[1] * b[2] > b[1] * a[2]

REq(a, b) == a[1] * b[2] = b[1] * a[2]

RLeq(a, b) == RLess(a, b) \/ REq(a, b)

RNeg(r) == <<-r[1], r[2]>>

RECURSIVE Gcd(_, _)
Gcd(a, b) == IF b = 0 THEN a ELSE Gcd(b, a % b)

\* lowest terms, positive denominator
RNorm(r) ==
    LET g == Gcd(Abs(r[1]), Abs(r[2]))
        sg == IF r[2] < 0 THEN -1 ELSE 1
    IN  IF r[1] = 0 THEN <<0, 1>> ELSE <<sg * (r[1] \div g), sg * (r[2] \div g)>>

\* a + b over the least common denominator
RAdd(a, b) ==
    LET x == RNorm(a)
        y == RNorm(b)
        g == Gcd(x[2], y[2])
    IN  RNorm(<<x[1] * (y[2] \div g) + y[1] * (x[2] \div g), (x[2] \div g) * y[2]>>)

RSub(a, b) == RAdd(a, RNeg(b))

\* a * b, cancelling across before multiplying
RMul(a, b) ==
    LET x  == RNorm(a)
        y  == RNorm(b)
        g1 == Gcd(Abs(x[1]), y[2])
        g2 == Gcd(Abs(y[1]), x[2])
    IN  IF x[1] = 0 \/ y[1] = 0 THEN <<0, 1>>
        ELSE <<(x[1] \div g1) * (y[1] \div g2), (x[2] \div g2) * (y[2] \div g1)>>

\* a / b, b # 0
RDiv(a, b) == RMul(a, RNorm(<<b[2], b[1]>>))

RZero == <<0, 1>>

(***************************************************************************)
(* signal_engine.py: enums and configuration                               *)
(***************************************************************************)
SignalType ==
    {"institutional", "insider", "congressional", "options_flow",
     "crypto_whale", "composite"}

SignalDirection == {"buy", "sell", "hold"}

SignalStrength == {"weak", "moderate", "strong"}

\* SignalsConfig defaults, in twentieths: 0.9, 0.85, 0.6, 0.5
institutional_accumulation == 18
insider_cluster_buy == 17
congressional_trade == 12
options_flow == 10
\* the weight of CRYPTO_WHALE and the default of weights.get, 0.5
crypto_whale_weight == 10
default_weight == 10
\* cross_signal_bonus 1.5, in tenths
cross_signal_bonus == 15

\* the floor 0.5 and the denominator epsilon 0.1 of aggregate_signals, in 1/800
ScoreFloor == 400
ScoreEpsilon == 80

\* (faulty variant) the weights of the two strongest sources swapped
WeightSwapped(source) ==
    CASE source = "institutional" -> insider_cluster_buy
      [] source = "insider"       -> institutional_accumulation
      [] source = "congressional" -> congressional_trade
      [] source = "options_flow"  -> options_flow
      [] source = "crypto_whale"  -> crypto_whale_weight
      [] OTHER                    -> default_weight

\* self.weights.get(source, 0.5)
Weight(source) ==
    CASE source = "institutional" -> institutional_accumulation
      [] source = "insider"       -> insider_cluster_buy
      [] source = "congressional" -> congressional_trade
      [] source = "options_flow"  -> options_flow
      [] source = "crypto_whale"  -> crypto_whale_weight
      [] OTHER                    -> default_weight

\* (faulty variant) the selected components collected in reverse order
RECURSIVE FilterReversed(_, _)
FilterReversed(cs, d) ==
    IF cs = <<>> THEN <<>>
    ELSE IF Head(cs).direction = d THEN FilterReversed(Tail(cs), d) \o <<Head(cs)>>
    ELSE FilterReversed(Tail(cs), d)

\* (faulty variant) HOLD components counted with the BUY components
RECURSIVE FilterHoldAsBuy(_, _)
FilterHoldAsBuy(cs, d) ==
    IF cs = <<>> THEN <<>>
    ELSE IF Head(cs).direction = d \/ (d = "buy" /\ Head(cs).direction = "hold")
         THEN <<Head(cs)>> \o FilterHoldAsBuy(Tail(cs), d)
    ELSE FilterHoldAsBuy(Tail(cs), d)

\* [c for c in components if c.direction == d]
RECURSIVE Filter(_, _)
Filter(cs, d) ==
    IF cs = <<>> THEN <<>>
    ELSE IF Head(cs).direction = d THEN <<Head(cs)>> \o Filter(Tail(cs), d)
    ELSE Filter(Tail(cs), d)

\* sum(c.strength * self.weights.get(c.source, 0.5) for c in cs), in 1/400
RECURSIVE WeightedSum(_)
WeightedSum(cs) ==
    IF cs = <<>> THEN 0
    ELSE Head(cs).strength * Weight(Head(cs).source) + WeightedSum(Tail(cs))

\* (faulty variant) the bonus test off by one
BonusAppliesOffByOne(cs) == Len(cs) > 2

\* the bonus is applied when this holds of a direction's components
BonusApplies(cs) == Len(cs) >= 2

\* a direction's score after the cross-signal bonus, in 1/800
Score(cs) ==
    IF BonusApplies(cs) THEN (2 * WeightedSum(cs) * cross_signal_bonus) \div 10
    ELSE 2 * WeightedSum(cs)

\* (faulty variant) the denominator's epsilon taken as 0.2
ConfidenceEpsilonDoubled(winning, bs, ss) ==
    LET den == bs + ss + 2 * ScoreEpsilon
    IN  IF den > 0 /\ winning >= den THEN <<1, 1>> ELSE <<winning, den>>

\* min(1.0, winning / (buy_score + sell_score + 0.1))
Confidence(winning, bs, ss) ==
    LET den == bs + ss + ScoreEpsilon
    IN  IF den > 0 /\ winning >= den THEN <<1, 1>> ELSE <<winning, den>>

\* (faulty variant) MODERATE only above 0.6
ClassifyModerateStrict(confidence) ==
    IF ~RLess(confidence, <<8, 10>>) THEN "strong"
    ELSE IF RLess(<<6, 10>>, confidence) THEN "moderate"
    ELSE "weak"

\* strength classification by confidence
Classify(confidence) ==
    IF ~RLess(confidence, <<8, 10>>) THEN "strong"
    ELSE IF ~RLess(confidence, <<6, 10>>) THEN "moderate"
    ELSE "weak"

\* (faulty variant) the floor taken as a strict bound
WinsStrictFloor(mine, other) == mine > other /\ mine > ScoreFloor

\* whether the given direction's score wins
Wins(mine, other) == mine > other /\ mine >= ScoreFloor

\* the locals buy_score and sell_score after the bonus
BuyScore(cs) == Score(Filter(cs, "buy"))
SellScore(cs) == Score(Filter(cs, "sell"))

\* " | ".join(c.details for c in cs)
RECURSIVE JoinDetails(_)
JoinDetails(cs) ==
    IF cs = <<>> THEN ""
    ELSE IF Len(cs) = 1 THEN Head(cs).details
    ELSE Head(cs).details \o " | " \o JoinDetails(Tail(cs))

\* the resolution of the clock, and timedelta(days=30) in ticks
TicksPerDay == 1000
ExpiryDays == 30
timedelta(days) == days * TicksPerDay

\* (faulty variant) the call keeps only the BUY components in the caller's list
InputAfterKeepsBuys(cs) == SelectSeq(cs, LAMBDA c : c.direction = "buy")

\* the caller's list `components` after aggregate_signals returned: the
\* function builds new lists and assigns to no element of its argument
InputAfter(cs) == cs

\* SignalEngine.aggregate_signals; now1 and now2 are what the two calls of
\* datetime.now() in the constructor's arguments return
aggregate_signals(tk, cs, current_price, now1, now2) ==
    LET buy_signals  == Filter(cs, "buy")
        sell_signals == Filter(cs, "sell")
        bs           == BuyScore(cs)
        ss           == SellScore(cs)
        Make(direction, winning, active) ==
            LET confidence == Confidence(winning, bs, ss)
            IN  Some([ticker |-> tk,
                  direction |-> direction,
                  confidence |-> confidence,
                  strength |-> Classify(confidence),
                  signal_type |-> IF Len(active) > 1 THEN "composite"
                                  ELSE active[1].source,
                  components |-> active,
                  generated_at |-> now1,
                  expires_at |-> now2 + timedelta(ExpiryDays),
                  notes |-> JoinDetails(active),
                  price_at_signal |-> current_price])
    IN  IF cs = <<>> THEN None
        ELSE IF Wins(bs, ss) THEN Make("buy", bs, buy_signals)
        ELSE IF Wins(ss, bs) THEN Make("sell", ss, sell_signals)
        ELSE None

(***************************************************************************)
(* Inputs of the aggregation runs                                          *)
(***************************************************************************)
MaxComponents == 3

Tickers == {"AAPL"}

\* strengths of the enumerated components, in twentieths: 0.8, 1.0
Strengths == {16, 20}

\* the ticks that may pass between two successive reads of the clock
ClockAdvances == {0, 1}

\* a component; its details text names it
Component(s, d, x) ==
    [source |-> s, direction |-> d, strength |-> x,
     details |-> s \o " " \o d \o " " \o ToString(x)]

ComponentUniverse ==
    {Component(s, d, x) : s \in SignalType, d \in {"buy", "sell"}, x \in Strengths}
    \cup {Component("options_flow", "hold", 20)}

\* the worked examples of the specification
ExampleAAPL ==
    <<Component("congressional", "buy", 16), Component("insider", "buy", 18)>>
ExampleSingle90 == <<Component("institutional", "buy", 20)>>
ExampleTwo45 ==
    <<Component("options_flow", "buy", 18), Component("crypto_whale", "buy", 18)>>
\* a confidence of exactly 0.8: buy 1.5 x (0.2 + 0.2) = 0.6, sell 0.05
ExampleBoundary80 ==
    <<Component("options_flow", "buy", 8), Component("options_flow", "sell", 2),
      Component("crypto_whale", "buy", 8)>>

AggIdle ==
    /\ ticker = ""
    /\ components = <<>>
    /\ buy_score = None
    /\ sell_score = None
    /\ trading_signal = None
    /\ second_signal = None
    /\ clock = 0

GenIdle ==
    /\ gen_call = None
    /\ gen_result = None

RankIdle ==
    /\ rank_signals = <<>>
    /\ top_signals = None

RepoIdle ==
    /\ institutions = <<>>
    /\ repo_calls = <<>>

CollIdle ==
    /\ coll_call = None
    /\ coll_result = None

LimIdle ==
    /\ mono = 0
    /\ timestamps = <<>>
    /\ lock = None
    /\ callers = <<>>
    /\ admitted = <<>>

IoIdle == RankIdle /\ RepoIdle /\ CollIdle /\ LimIdle

BtIdle ==
    /\ signals = <<>>
    /\ results = <<>>
    /\ self_results = <<>>
    /\ price_cache = <<>>
    /\ now = 0
    /\ calls = <<>>

SumIdle ==
    /\ sum_results = <<>>
    /\ summary = None

InitAgg ==
    /\ phase = "agg_ready"
    /\ GenIdle
    /\ BtIdle
    /\ SumIdle
    /\ IoIdle
    /\ ticker \in Tickers
    /\ \/ \E k \in 0..MaxComponents : components \in [1..k -> ComponentUniverse]
       \/ components \in {ExampleAAPL, ExampleSingle90, ExampleTwo45, ExampleBoundary80}
    /\ buy_score = None
    /\ sell_score = None
    /\ trading_signal = None
    /\ second_signal = None
    /\ clock = 0

\* one call of aggregate_signals(ticker, components)
Aggregate ==
    /\ phase = "agg_ready"
    /\ \E d \in ClockAdvances :
        /\ trading_signal' =
               aggregate_signals(ticker, components, None, clock, clock + d)
        /\ clock' = clock + d
    /\ buy_score' = IF components = <<>> THEN None ELSE BuyScore(components)
    /\ sell_score' = IF components = <<>> THEN None ELSE SellScore(components)
    /\ components' = InputAfter(components)
    /\ phase' = "agg_done"
    /\ UNCHANGED <<ticker, second_signal, genVars, btVars, sumVars, ioVars>>

NextAgg == Aggregate

SpecAgg == InitAgg /\ [][NextAgg]_vars

\* a second call aggregate_signals(ticker, components) with the same list object
AggregateAgain ==
    /\ phase = "agg_done"
    /\ \E d \in ClockAdvances :
        /\ second_signal' =
               aggregate_signals(ticker, components, None, clock, clock + d)
        /\ clock' = clock + d
    /\ components' = InputAfter(components)
    /\ phase' = "agg_twice"
    /\ UNCHANGED <<ticker, buy_score, sell_score, trading_signal,
                   genVars, btVars, sumVars, ioVars>>

NextTwice == Aggregate \/ AggregateAgain

SpecTwice == InitAgg /\ [][NextTwice]_vars

(***************************************************************************)
(* Claims about aggregate_signals                                          *)
(***************************************************************************)
AggDone == phase = "agg_done"

Emitted == AggDone /\ trading_signal # None

Max(a, b) == IF a >= b THEN a ELSE b

\* C1: aggregate_signals emits a signal if and only if the larger of the two
\* bonus-adjusted scores is at least 0.5 and the scores differ; the direction
\* is BUY when buy_score > sell_score and SELL when sell_score > buy_score,
\* never HOLD; an empty list yields no signal.
C1_EmitIffFloorAndNoTie ==
    AggDone =>
        /\ components = <<>> => trading_signal = None
        /\ components # <<>> =>
            /\ trading_signal # None <=>
                   (Max(buy_score, sell_score) >= ScoreFloor /\ buy_score # sell_score)
            /\ trading_signal # None =>
                   /\ Val(trading_signal).direction \in {"buy", "sell"}
                   /\ Val(trading_signal).direction = "buy" <=> buy_score > sell_score
                   /\ Val(trading_signal).direction = "sell" <=> sell_score > buy_score

\* a single source at exactly the floor (options_flow 1.0 x 0.5) emits
C1_Witness ==
    /\ Emitted
    /\ Max(buy_score, sell_score) = ScoreFloor
    /\ Val(trading_signal).direction = "sell"

\* the source weights as the specification states them, in twentieths
SpecWeight(source) ==
    CASE source = "institutional" -> 18
      [] source = "insider"       -> 17
      [] source = "congressional" -> 12
      [] source = "options_flow"  -> 10
      [] source = "crypto_whale"  -> 10
      [] OTHER                    -> 10

RECURSIVE SumOver(_, _)
SumOver(I, cs) ==
    IF I = {} THEN 0
    ELSE LET i == CHOOSE j \in I : TRUE
         IN  cs[i].strength * SpecWeight(cs[i].source) + SumOver(I \ {i}, cs)

\* a direction's score as the specification states it, in 1/800
SpecScore(cs, d) ==
    LET I == {i \in 1..Len(cs) : cs[i].direction = d}
    IN  IF Cardinality(I) >= 2 THEN 3 * SumOver(I, cs) ELSE 2 * SumOver(I, cs)

\* C2: for every list that yields a signal, confidence is
\* min(1, winning_score / (buy_score + sell_score + 0.1)) and lies in [0, 1],
\* with each score the bonus-adjusted sum of strength x source weight; the AAPL
\* example gives buy_score 1.8675, confidence about 0.9492, STRONG, COMPOSITE.
C2_ConfidenceFormula ==
    /\ Emitted =>
         LET b == SpecScore(components, "buy")
             s == SpecScore(components, "sell")
             w == IF Val(trading_signal).direction = "buy" THEN b ELSE s
             q == <<w, b + s + ScoreEpsilon>>
             c == Val(trading_signal).confidence
         IN  /\ REq(c, IF RLess(<<1, 1>>, q) THEN <<1, 1>> ELSE q)
             /\ RLeq(<<0, 1>>, c)
             /\ RLeq(c, <<1, 1>>)
    /\ (AggDone /\ components = ExampleAAPL) =>
         /\ trading_signal # None
         /\ buy_score = 1494
         /\ REq(Val(trading_signal).confidence, <<18675, 19675>>)
         /\ RLess(<<9491, 10000>>, Val(trading_signal).confidence)
         /\ RLess(Val(trading_signal).confidence, <<9493, 10000>>)
         /\ Val(trading_signal).direction = "buy"
         /\ Val(trading_signal).strength = "strong"
         /\ Val(trading_signal).signal_type = "composite"

\* the AAPL example has been aggregated
C2_Witness ==
    /\ Emitted
    /\ components = ExampleAAPL
    /\ Val(trading_signal).ticker = "AAPL"

\* the weighted sum of a direction before the bonus, in 1/800
BaseScore(cs, d) == 2 * WeightedSum(Filter(cs, d))

\* C3: the cross-signal bonus 1.5 multiplies a direction's score if and only
\* if that direction has at least 2 components, each direction on its own;
\* a single BUY of weighted score 0.9 gives confidence 0.9/1.0 and two BUYs of
\* weighted score 0.45 each give 1.35/1.45.
C3_BonusIffTwoPerDirection ==
    /\ (AggDone /\ components # <<>>) =>
         /\ buy_score = IF Len(Filter(components, "buy")) >= 2
                         THEN (3 * BaseScore(components, "buy")) \div 2
                         ELSE BaseScore(components, "buy")
         /\ sell_score = IF Len(Filter(components, "sell")) >= 2
                          THEN (3 * BaseScore(components, "sell")) \div 2
                          ELSE BaseScore(components, "sell")
    /\ (AggDone /\ components = ExampleSingle90) =>
         /\ trading_signal # None
         /\ REq(Val(trading_signal).confidence, <<90, 100>>)
    /\ (AggDone /\ components = ExampleTwo45) =>
         /\ trading_signal # None
         /\ REq(Val(trading_signal).confidence, <<135, 145>>)
         /\ ~REq(Val(trading_signal).confidence, <<90, 100>>)

\* two BUY components of weighted score 0.45 each have been aggregated
C3_Witness ==
    /\ Emitted
    /\ components = ExampleTwo45
    /\ buy_score = 1080

\* the bonus reaches one direction and not the other
C3_WitnessIndependent ==
    /\ Emitted
    /\ Len(Filter(components, "buy")) = 2
    /\ Len(Filter(components, "sell")) = 1
    /\ buy_score * 2 = 3 * BaseScore(components, "buy")
    /\ sell_score = BaseScore(components, "sell")

(***************************************************************************)
(* backtester.py: Backtester                                               *)
(*                                                                         *)
(* A price series (the DataFrame of stock.history) is a sequence of rows   *)
(* [date, close], dates increasing.  Dates are day numbers.                *)
(***************************************************************************)
holding_days == <<1, 7, 30>>

\* the length of the max_gain / max_drawdown window
GainWindow == 30

\* what one call of the price provider gives: it raises, or returns rows
Raised == [ok |-> FALSE, rows |-> <<>>]
Rows(rows) == [ok |-> TRUE, rows |-> rows]

\* cache_key = f"{ticker}_{start_date.date()}_{end_date.date()}"
CacheKey(tk, start_date, end_date) == <<tk, start_date, end_date>>

\* Backtester.get_price_data: the returned DataFrame (or None)
get_price_data(cache, key, outcome) ==
    IF key \in DOMAIN cache THEN Some(cache[key])
    ELSE IF ~outcome.ok THEN None
    ELSE IF outcome.rows = <<>> THEN None
    ELSE Some(outcome.rows)

\* (faulty variant) a fetched series is not stored
CacheAfterNoStore(cache, key, outcome) == cache

\* (faulty variant) an empty series is stored like any other
CacheAfterStoresEmpty(cache, key, outcome) ==
    IF key \in DOMAIN cache THEN cache
    ELSE IF ~outcome.ok THEN cache
    ELSE (key :> outcome.rows) @@ cache

\* Backtester.get_price_data: price_cache after the call
CacheAfter(cache, key, outcome) ==
    IF key \in DOMAIN cache THEN cache
    ELSE IF ~outcome.ok \/ outcome.rows = <<>> THEN cache
    ELSE (key :> outcome.rows) @@ cache

\* (faulty variant) the anchor taken as the first fetched row
FirstIdxFirstRow(rows, signal_date, i) ==
    IF rows = <<>> THEN 0 ELSE 1

\* for i, d in enumerate(df_dates): if d >= signal_date: signal_idx = i; break
\* (1-based; 0 when no row qualifies)
RECURSIVE FirstIdx(_, _, _)
FirstIdx(rows, signal_date, i) ==
    IF i > Len(rows) THEN 0
    ELSE IF rows[i].date >= signal_date THEN i
    ELSE FirstIdx(rows, signal_date, i + 1)

\* (faulty variant) the direction adjustment left out
AdjustNoNegate(raw_return, direction) == raw_return

\* if signal.direction == SignalDirection.SELL: raw_return = -raw_return
Adjust(raw_return, direction) ==
    IF direction = "sell" THEN RNeg(raw_return) ELSE raw_return

\* the adjusted return of holding `days` rows from the anchor, or None
ReturnAt(rows, idx, days, direction) ==
    IF idx + days <= Len(rows)
    THEN Some(Adjust(<<rows[idx + days].close - rows[idx].close, rows[idx].close>>,
                     direction))
    ELSE None

\* the future price `days` rows from the anchor, or None
PriceAt(rows, idx, days) ==
    IF idx + days <= Len(rows) THEN Some(rows[idx + days].close) ELSE None

\* (faulty variant) a flat 30-day return counted as a win
IsWinnerNonNegative(return_30d) ==
    IF return_30d = None THEN None ELSE Some(RSign(Val(return_30d)) >= 0)

\* if result.return_30d is not None: result.is_winner = result.return_30d > 0
IsWinner(return_30d) ==
    IF return_30d = None THEN None ELSE Some(RSign(Val(return_30d)) > 0)

\* period_returns over df.iloc[signal_idx:signal_idx + 30], direction-adjusted
PeriodReturns(rows, idx, direction) ==
    {Adjust(<<rows[i].close - rows[idx].close, rows[idx].close>>, direction) :
        i \in idx..(idx + GainWindow - 1)}

RMax(S) == CHOOSE x \in S : \A y \in S : RLeq(y, x)
RMin(S) == CHOOSE x \in S : \A y \in S : RLeq(x, y)

\* whether max_gain / max_drawdown are computed
HasGainWindow(rows, idx) == idx - 1 + GainWindow <= Len(rows)

\* Backtester.backtest_signal after the fetch: df is the DataFrame or None
backtest_signal(signal, df) ==
    IF df = None THEN None
    ELSE IF Val(df) = <<>> THEN None
    ELSE
      LET rows == Val(df)
          idx  == FirstIdx(rows, signal.generated_at, 1)
          dir  == signal.direction
          r30  == ReturnAt(rows, idx, holding_days[3], dir)
          win  == HasGainWindow(rows, idx)
      IN  IF idx = 0 THEN None
          ELSE Some([ticker |-> signal.ticker,
                     signal_date |-> signal.generated_at,
                     signal_direction |-> dir,
                     signal_confidence |-> signal.confidence,
                     price_at_signal |-> rows[idx].close,
                     return_1d |-> ReturnAt(rows, idx, holding_days[1], dir),
                     return_7d |-> ReturnAt(rows, idx, holding_days[2], dir),
                     return_30d |-> r30,
                     price_after_1d |-> PriceAt(rows, idx, holding_days[1]),
                     price_after_7d |-> PriceAt(rows, idx, holding_days[2]),
                     price_after_30d |-> PriceAt(rows, idx, holding_days[3]),
                     is_winner |-> IsWinner(r30),
                     max_gain |-> IF win THEN Some(RMax(PeriodReturns(rows, idx, dir)))
                                  ELSE None,
                     max_drawdown |-> IF win THEN Some(RMin(PeriodReturns(rows, idx, dir)))
                                      ELSE None])

\* (faulty variant) a failed signal discards the results gathered so far
AppendResultResetOnFailure(rs, result) ==
    IF result = None THEN <<>> ELSE Append(rs, Val(result))

\* if result: results.append(result)
AppendResult(rs, result) ==
    IF result = None THEN rs ELSE Append(rs, Val(result))

(***************************************************************************)
(* Inputs of the backtest runs                                             *)
(***************************************************************************)
\* the most rows a fetched series has
MaxRows == 33

\* the most signals of a batch
MaxSignals == 3

\* closing prices
PriceSet == {90, 100, 115}

\* the day the signals are generated on
GenDay == 10

\* rows 1..WindowRows repeat a pattern of 4 closes, later rows have one close
WindowRows == GainWindow

MkRows(n, first, gap, q, t) ==
    [i \in 1..n |->
        [date  |-> first + (i - 1) + (IF gap /\ i > 1 THEN 2 ELSE 0),
         close |-> IF i <= WindowRows THEN q[(i % 4) + 1] ELSE t]]

\* the series of the batch runs: an empty one, one that ends before the
\* signal's day, one that covers 7 days, and one that covers every horizon
BatchSeries ==
    {MkRows(0, GenDay - 1, FALSE, <<100, 100, 100, 100>>, 115),
     MkRows(1, GenDay - 1, FALSE, <<100, 100, 100, 100>>, 115),
     MkRows(9, GenDay - 1, FALSE, <<90, 100, 115, 100>>, 115),
     MkRows(MaxRows, GenDay - 1, FALSE, <<100, 100, 100, 100>>, 115)}

Signal(tk, gen, dir) ==
    [ticker |-> tk, generated_at |-> gen, direction |-> dir,
     confidence |-> <<9, 10>>, price_at_signal |-> Some(95)]

SignalUniverse ==
    {Signal(tk, GenDay, dir) : tk \in {"AAPL", "MSFT"}, dir \in {"buy", "sell"}}

InitBatch ==
    /\ phase = "bt_loop"
    /\ AggIdle
    /\ GenIdle
    /\ SumIdle
    /\ IoIdle
    /\ \E k \in 0..MaxSignals : signals \in [1..k -> SignalUniverse]
    /\ results = <<>>
    /\ self_results = <<>>
    /\ price_cache = <<>>
    /\ now = GenDay + MaxRows
    /\ calls = <<>>

InitSingle ==
    /\ phase = "bt_loop"
    /\ AggIdle
    /\ GenIdle
    /\ SumIdle
    /\ IoIdle
    /\ signals \in [1..1 -> SignalUniverse]
    /\ results = <<>>
    /\ self_results = <<>>
    /\ price_cache = <<>>
    /\ now = GenDay + MaxRows
    /\ calls = <<>>

\* one iteration of the loop of backtest_signals: backtest_signal(signal) with
\* the provider answering `outcome` if it is asked
BacktestStep(outcome) ==
    LET signal == signals[Len(calls) + 1]
        key    == CacheKey(signal.ticker, signal.generated_at - 1, now)
        df     == get_price_data(price_cache, key, outcome)
        result == backtest_signal(signal, df)
    IN  /\ price_cache' = CacheAfter(price_cache, key, outcome)
        /\ results' = AppendResult(results, result)
        /\ calls' = Append(calls, [signal  |-> signal,
                                   key     |-> key,
                                   fetched |-> key \notin DOMAIN price_cache,
                                   raised  |-> ~outcome.ok,
                                   empty   |-> outcome.ok /\ outcome.rows = <<>>,
                                   df      |-> df,
                                   result  |-> result])
        /\ UNCHANGED <<phase, signals, self_results, now, aggVars, genVars, sumVars, ioVars>>

InLoop == phase = "bt_loop" /\ Len(calls) < Len(signals)

\* self.results.extend(results); return results
BacktestFinish ==
    /\ phase = "bt_loop"
    /\ Len(calls) = Len(signals)
    /\ self_results' = self_results \o results
    /\ phase' = "bt_done"
    /\ UNCHANGED <<signals, results, price_cache, now, calls, aggVars, genVars, sumVars, ioVars>>

\* backtest_signal where the provider returns a series for a signal generated
\* on GenDay: it starts on the day before (the fetch's start_date), on the
\* day, or after it
FetchSingle ==
    /\ InLoop
    /\ \E n \in 0..MaxRows, first \in {GenDay - 1, GenDay, GenDay + 2},
          gap \in BOOLEAN, q \in [1..4 -> PriceSet], t \in PriceSet :
            BacktestStep(Rows(MkRows(n, first, gap, q, t)))

\* backtest_signal where the provider raises
FetchRaises == InLoop /\ BacktestStep(Raised)

NextSingle == FetchSingle \/ FetchRaises \/ BacktestFinish

SpecSingle == InitSingle /\ [][NextSingle]_vars

\* backtest_signal where the provider returns one of the batch series
FetchBatch == InLoop /\ \E rows \in BatchSeries : BacktestStep(Rows(rows))

NextBatch == FetchBatch \/ FetchRaises \/ BacktestFinish

SpecBatch == InitBatch /\ [][NextBatch]_vars

(***************************************************************************)
(* Claims about backtest_signal and backtest_signals                       *)
(***************************************************************************)
\* the anchor as the specification states it: the earliest row whose date is
\* on or after the generation date (0 when there is none)
ClaimAnchor(rows, gen) ==
    LET I == {i \in 1..Len(rows) : rows[i].date >= gen}
    IN  IF I = {} THEN 0 ELSE CHOOSE i \in I : \A j \in I : i <= j

ReturnField(r, h) ==
    CASE h = 1 -> r.return_1d [] h = 7 -> r.return_7d [] h = 30 -> r.return_30d

PriceField(r, h) ==
    CASE h = 1 -> r.price_after_1d [] h = 7 -> r.price_after_7d
      [] h = 30 -> r.price_after_30d

Flip(signal) ==
    [signal EXCEPT !.direction = IF signal.direction = "buy" THEN "sell" ELSE "buy"]

\* the calls that produced a result
Produced == {k \in 1..Len(calls) : calls[k].result # None}

\* C4: for each horizon h in {1, 7, 30}, return_h and price_after_h are set
\* if and only if anchor + h is inside the series, and then return_h is
\* (close[anchor+h] - close[anchor]) / close[anchor] for BUY and its negation
\* for SELL; on the same prices the SELL return is minus the BUY return
\* (100 -> 115 at day 30 gives +0.15 for BUY and -0.15 for SELL).
C4_HorizonReturns ==
    \A k \in Produced :
        LET c     == calls[k]
            r     == Val(c.result)
            rows  == Val(c.df)
            a     == ClaimAnchor(rows, c.signal.generated_at)
            other == backtest_signal(Flip(c.signal), c.df)
        IN  /\ other # None
            /\ \A h \in {1, 7, 30} :
                 /\ ReturnField(r, h) # None <=> a + h <= Len(rows)
                 /\ PriceField(r, h) # None <=> a + h <= Len(rows)
                 /\ a + h <= Len(rows) =>
                      LET raw == <<rows[a + h].close - rows[a].close, rows[a].close>>
                      IN  /\ Val(PriceField(r, h)) = rows[a + h].close
                          /\ c.signal.direction = "buy" =>
                               REq(Val(ReturnField(r, h)), raw)
                          /\ c.signal.direction = "sell" =>
                               REq(Val(ReturnField(r, h)), RNeg(raw))
                          /\ REq(Val(ReturnField(Val(other), h)),
                                 RNeg(Val(ReturnField(r, h))))
            /\ (a + 30 <= Len(rows) /\ rows[a].close = 100 /\ rows[a + 30].close = 115) =>
                 REq(Val(r.return_30d),
                     IF c.signal.direction = "buy" THEN <<15, 100>> ELSE <<-15, 100>>)

\* a SELL signal backtested on prices 100 -> 115 at day 30 and a falling 7-day
\* price, with the day-30 row the last of the series
C4_Witness ==
    \E k \in Produced :
        LET c == calls[k]
            r == Val(c.result)
            rows == Val(c.df)
        IN  /\ c.signal.direction = "sell"
            /\ r.price_at_signal = 100
            /\ r.price_after_30d = Some(115)
            /\ r.return_30d = Some(<<-15, 100>>)
            /\ r.price_after_7d = Some(90)
            /\ r.return_7d = Some(<<10, 100>>)

\* a result whose 1-day return is set and whose 30-day return is not
C4_WitnessShort ==
    \E k \in Produced :
        /\ Val(calls[k].result).return_1d # None
        /\ Val(calls[k].result).return_7d = None
        /\ Val(calls[k].result).return_30d = None

\* C5: the anchor is the earliest day of the fetched series whose date is on
\* or after the signal's generation date and price_at_signal of the result is
\* that day's close (never an earlier day's, never the signal's own field);
\* an empty series, or one with no day on or after the generation date,
\* produces no result.
C5_AnchorNoLookAhead ==
    \A k \in 1..Len(calls) :
        LET c    == calls[k]
            gen  == c.signal.generated_at
            rows == IF c.df = None THEN <<>> ELSE Val(c.df)
            has  == \E i \in 1..Len(rows) : rows[i].date >= gen
        IN  /\ c.result # None <=> has
            /\ (c.fetched /\ (c.raised \/ c.empty)) => c.result = None
            /\ c.result # None =>
                 \E a \in 1..Len(rows) :
                    /\ rows[a].date >= gen
                    /\ \A j \in 1..(a - 1) : rows[j].date < gen
                    /\ Val(c.result).price_at_signal = rows[a].close
                    /\ Val(c.result).signal_date = gen

\* the series starts the day before the signal and the result is anchored on
\* its second row, whose close differs from the first row's and from the
\* signal's own price_at_signal
C5_Witness ==
    \E k \in Produced :
        LET c == calls[k]
            rows == Val(c.df)
        IN  /\ rows[1].date < c.signal.generated_at
            /\ rows[2].date > c.signal.generated_at
            /\ rows[1].close # rows[2].close
            /\ Val(c.result).price_at_signal = rows[2].close
            /\ Val(c.result).price_at_signal # Val(c.signal.price_at_signal)

\* a series that ends before the signal's day gives no result
C5_WitnessNoAnchor ==
    \E k \in 1..Len(calls) :
        /\ calls[k].df # None
        /\ calls[k].result = None

\* C6: is_winner is set if and only if return_30d is set, and then it is true
\* exactly when return_30d > 0; a return_30d of exactly 0 gives False.
C6_WinnerIffPositive30d ==
    \A k \in Produced :
        LET r == Val(calls[k].result)
        IN  /\ r.is_winner # None <=> r.return_30d # None
            /\ r.return_30d # None =>
                 /\ Val(r.is_winner) <=> RLess(<<0, 1>>, Val(r.return_30d))
                 /\ REq(Val(r.return_30d), <<0, 1>>) => Val(r.is_winner) = FALSE

\* a result with a 30-day return of exactly zero, not a winner
C6_Witness ==
    \E k \in Produced :
        /\ Val(calls[k].result).return_30d = Some(<<0, 100>>)
        /\ Val(calls[k].result).is_winner = Some(FALSE)

\* the results of the calls that produced one, in call order
RECURSIVE Successes(_)
Successes(cs) ==
    IF cs = <<>> THEN <<>>
    ELSE IF Head(cs).result = None THEN Successes(Tail(cs))
    ELSE <<Val(Head(cs).result)>> \o Successes(Tail(cs))

BatchDone == phase = "bt_done"

\* C7: backtest_signals always completes and returns exactly the results of
\* the signals whose own backtest succeeded, in input order; a fetch that
\* raises or returns an empty series omits only that signal's result.
C7_BatchReturnsSuccesses ==
    /\ phase = "bt_loop" =>
         /\ Len(calls) <= Len(signals)
         /\ results = Successes(calls)
         /\ Len(calls) < Len(signals) => ENABLED FetchRaises
         /\ Len(calls) = Len(signals) => ENABLED BacktestFinish
    /\ BatchDone =>
         /\ Len(calls) = Len(signals)
         /\ results = Successes(calls)
         /\ self_results = results
    /\ \A k \in 1..Len(calls) :
         LET c == calls[k]
         IN  /\ c.signal = signals[k]
             /\ (c.fetched /\ (c.raised \/ c.empty)) => c.result = None
             /\ c.result # None <=>
                   (c.df # None /\ ClaimAnchor(Val(c.df), c.signal.generated_at) # 0)
             /\ c.result # None => Val(c.result).ticker = c.signal.ticker

\* a finished batch of three signals whose middle fetch raised and whose other
\* two signals have their results, in order
C7_Witness ==
    /\ BatchDone
    /\ Len(signals) = 3
    /\ calls[1].result # None
    /\ calls[2].fetched /\ calls[2].raised /\ calls[2].result = None
    /\ calls[3].result # None
    /\ results = <<Val(calls[1].result), Val(calls[3].result)>>

(***************************************************************************)
(* backtester.py: Backtester.generate_summary                              *)
(***************************************************************************)
\* valid_results = [r for r in results if r.return_30d is not None]
ValidResults(rs) == SelectSeq(rs, LAMBDA r : r.return_30d # None)

\* [r for r in valid_results if r.is_winner]
WinnersOf(valid) == SelectSeq(valid, LAMBDA r : r.is_winner = Some(TRUE))

\* [r for r in valid_results if not r.is_winner]
LosersOf(valid) == SelectSeq(valid, LAMBDA r : r.is_winner # Some(TRUE))

\* [r.<field> for r in rs if r.<field> is not None]
Returns1d(rs) ==
    LET kept == SelectSeq(rs, LAMBDA r : r.return_1d # None)
    IN  [i \in 1..Len(kept) |-> Val(kept[i].return_1d)]
Returns7d(rs) ==
    LET kept == SelectSeq(rs, LAMBDA r : r.return_7d # None)
    IN  [i \in 1..Len(kept) |-> Val(kept[i].return_7d)]
Returns30d(rs) == [i \in 1..Len(rs) |-> Val(rs[i].return_30d)]

RECURSIVE RSum(_)
RSum(xs) == IF xs = <<>> THEN RZero ELSE RAdd(Head(xs), RSum(Tail(xs)))

\* np.mean(xs) if xs else 0
MeanOrZero(xs) == IF xs = <<>> THEN RZero ELSE RDiv(RSum(xs), <<Len(xs), 1>>)

\* max(xs) if xs else 0, min(xs) if xs else 0
MaxOrZero(xs) ==
    IF xs = <<>> THEN RZero ELSE RMax({xs[i] : i \in 1..Len(xs)})
MinOrZero(xs) ==
    IF xs = <<>> THEN RZero ELSE RMin({xs[i] : i \in 1..Len(xs)})

\* the annualising factor: np.sqrt(12), held as its square
SharpeAnnualSquared == 12

\* returns_array.std() squared: the population variance
Variance(xs) ==
    LET m == MeanOrZero(xs)
    IN  MeanOrZero([i \in 1..Len(xs) |-> RMul(RSub(xs[i], m), RSub(xs[i], m))])

Sgn(r) == IF RSign(r) > 0 THEN 1 ELSE IF RSign(r) < 0 THEN -1 ELSE 0

\* (returns_array.mean() / returns_array.std()) * np.sqrt(12) if len > 1, else
\* None.  A finite value is held as its sign and its square; a zero standard
\* deviation makes the float division give inf or -inf (mean # 0) or nan
\* (mean = 0).
Sharpe(xs) ==
    IF Len(xs) > 1
    THEN LET m == MeanOrZero(xs)
             v == Variance(xs)
         IN  IF REq(v, RZero)
             THEN Some([kind |-> IF Sgn(m) = 0 THEN "nan" ELSE "inf",
                        sign |-> Sgn(m), square |-> RZero])
             ELSE Some([kind |-> "finite", sign |-> Sgn(m),
                        square |-> RMul(<<SharpeAnnualSquared, 1>>,
                                        RDiv(RMul(m, m), v))])
    ELSE None

\* total_gains = sum(r for r in returns_30d if r > 0)
TotalGains(xs) == RSum(SelectSeq(xs, LAMBDA x : RLess(RZero, x)))

\* total_losses = abs(sum(r for r in returns_30d if r < 0))
TotalLosses(xs) == RNeg(RSum(SelectSeq(xs, LAMBDA x : RLess(x, RZero))))

\* (faulty variant) no losses reported as a profit factor of zero
ProfitFactorZeroWhenNoLosses(total_gains, total_losses) ==
    IF RLess(RZero, total_losses) THEN Some(RDiv(total_gains, total_losses))
    ELSE Some(RZero)

\* total_gains / total_losses if total_losses > 0 else None
ProfitFactor(total_gains, total_losses) ==
    IF RLess(RZero, total_losses) THEN Some(RDiv(total_gains, total_losses))
    ELSE None

\* (faulty variant) the win rate taken over all results
WinRateOverAll(winners, valid, rs) == <<Len(winners), Len(rs)>>

\* len(winners) / len(valid_results) if valid_results else 0
WinRate(winners, valid, rs) ==
    IF valid = <<>> THEN RZero ELSE <<Len(winners), Len(valid)>>

\* the summary of the two early returns
EmptySummary(total) ==
    [total_signals |-> total, winners |-> 0, losers |-> 0, win_rate |-> RZero,
     avg_return_1d |-> RZero, avg_return_7d |-> RZero, avg_return_30d |-> RZero,
     best_return |-> RZero, worst_return |-> RZero,
     avg_winner_return |-> RZero, avg_loser_return |-> RZero,
     sharpe_ratio |-> None, profit_factor |-> None]

\* Backtester.generate_summary
generate_summary(rs) ==
    LET valid_results == ValidResults(rs)
        winners       == WinnersOf(valid_results)
        losers        == LosersOf(valid_results)
        returns_30d   == Returns30d(valid_results)
    IN  IF rs = <<>> THEN EmptySummary(0)
        ELSE IF valid_results = <<>> THEN EmptySummary(Len(rs))
        ELSE [total_signals |-> Len(rs),
              winners |-> Len(winners),
              losers |-> Len(losers),
              win_rate |-> WinRate(winners, valid_results, rs),
              avg_return_1d |-> MeanOrZero(Returns1d(valid_results)),
              avg_return_7d |-> MeanOrZero(Returns7d(valid_results)),
              avg_return_30d |-> MeanOrZero(returns_30d),
              best_return |-> MaxOrZero(returns_30d),
              worst_return |-> MinOrZero(returns_30d),
              avg_winner_return |-> MeanOrZero(Returns30d(winners)),
              avg_loser_return |-> MeanOrZero(Returns30d(losers)),
              sharpe_ratio |-> Sharpe(returns_30d),
              profit_factor |-> ProfitFactor(TotalGains(returns_30d),
                                             TotalLosses(returns_30d))]

(***************************************************************************)
(* Inputs of the summary runs: results as backtest_signal leaves them (a   *)
(* longer horizon is set only if the shorter ones are, is_winner follows   *)
(* return_30d), with returns in steps of 0.05.                             *)
(***************************************************************************)
MaxResults == 3

Ret(n) == Some(<<n, 20>>)

MkResult(r1, r7, r30) ==
    [ticker |-> "AAPL", signal_date |-> GenDay, signal_direction |-> "buy",
     signal_confidence |-> <<9, 10>>, price_at_signal |-> 100,
     return_1d |-> r1, return_7d |-> r7, return_30d |-> r30,
     price_after_1d |-> None, price_after_7d |-> None, price_after_30d |-> None,
     is_winner |-> IsWinner(r30), max_gain |-> None, max_drawdown |-> None]

ResultUniverse ==
    {MkResult(r1, Ret(1), r30) :
        r1 \in {Ret(1), Ret(-1)}, r30 \in {Ret(-1), Ret(0), Ret(2), Ret(4)}}
    \cup {MkResult(None, None, None), MkResult(Ret(1), None, None),
          MkResult(Ret(1), Ret(1), None)}

InitSummary ==
    /\ phase = "sum_ready"
    /\ AggIdle
    /\ GenIdle
    /\ BtIdle
    /\ IoIdle
    /\ \E k \in 0..MaxResults : sum_results \in [1..k -> ResultUniverse]
    /\ summary = None

\* one call of generate_summary(results)
GenerateSummary ==
    /\ phase = "sum_ready"
    /\ summary' = Some(generate_summary(sum_results))
    /\ phase' = "sum_done"
    /\ UNCHANGED <<sum_results, aggVars, genVars, btVars, ioVars>>

NextSummary == GenerateSummary

SpecSummary == InitSummary /\ [][NextSummary]_vars

(***************************************************************************)
(* Claims about generate_summary                                           *)
(***************************************************************************)
SummaryDone == phase = "sum_done"

\* the results whose return_30d is set, by position
ValidIdx == {i \in 1..Len(sum_results) : sum_results[i].return_30d # None}

R30(i) == Val(sum_results[i].return_30d)

RECURSIVE SumR30(_)
SumR30(I) ==
    IF I = {} THEN RZero
    ELSE LET i == CHOOSE j \in I : TRUE IN RAdd(R30(i), SumR30(I \ {i}))

\* the statistics of the summary are all zero and both ratios are None
ZeroStatistics(s) ==
    /\ s.winners = 0 /\ s.losers = 0
    /\ REq(s.win_rate, RZero)
    /\ REq(s.avg_return_1d, RZero) /\ REq(s.avg_return_7d, RZero)
    /\ REq(s.avg_return_30d, RZero)
    /\ REq(s.best_return, RZero) /\ REq(s.worst_return, RZero)
    /\ REq(s.avg_winner_return, RZero) /\ REq(s.avg_loser_return, RZero)
    /\ s.sharpe_ratio = None /\ s.profit_factor = None

\* the statistics are taken over the results whose return_30d is set
AggregatesOverValid(s) ==
    LET n == Cardinality(ValidIdx)
        W == {i \in ValidIdx : RLess(RZero, R30(i))}
    IN  n > 0 =>
          /\ s.winners + s.losers = n
          /\ s.winners = Cardinality(W)
          /\ REq(s.win_rate, <<s.winners, n>>)
          /\ REq(s.avg_return_30d, RDiv(SumR30(ValidIdx), <<n, 1>>))
          /\ \E i \in ValidIdx : REq(s.best_return, R30(i))
          /\ \A i \in ValidIdx : RLeq(R30(i), s.best_return)
          /\ \E i \in ValidIdx : REq(s.worst_return, R30(i))
          /\ \A i \in ValidIdx : RLeq(s.worst_return, R30(i))

\* returns [0.10, -0.05, 0.20]
SummaryExample ==
    /\ Len(sum_results) = 3
    /\ sum_results[1].return_30d = Ret(2)
    /\ sum_results[2].return_30d = Ret(-1)
    /\ sum_results[3].return_30d = Ret(4)

ExampleStatistics(s) ==
    SummaryExample =>
        /\ REq(s.win_rate, <<2, 3>>)
        /\ REq(s.best_return, <<20, 100>>)
        /\ REq(s.worst_return, <<-5, 100>>)
        /\ REq(s.avg_return_30d, <<25, 300>>)
        /\ s.profit_factor # None
        /\ REq(Val(s.profit_factor), <<6, 1>>)

\* C8 as stated: the statistics are taken over the results whose return_30d
\* is set, and when there is none the summary is all zero with sharpe_ratio
\* and profit_factor None.
C8_Original ==
    SummaryDone =>
        LET s == Val(summary)
        IN  /\ AggregatesOverValid(s)
            /\ ExampleStatistics(s)
            /\ ValidIdx = {} => (ZeroStatistics(s) /\ s.total_signals = 0)

\* C8 (amended): generate_summary aggregates only over the results whose
\* return_30d is set (winners + losers is their number, win_rate is winners
\* over it, best/worst/average 30d returns are over them; [0.10, -0.05, 0.20]
\* gives 2/3, 0.20, -0.05, profit factor 6); when no result has return_30d set
\* every statistic is zero and sharpe_ratio and profit_factor are None, while
\* total_signals is the number of results passed in.
C8_SummaryOverValid ==
    SummaryDone =>
        LET s == Val(summary)
        IN  /\ AggregatesOverValid(s)
            /\ ExampleStatistics(s)
            /\ ValidIdx = {} => ZeroStatistics(s)
            /\ s.total_signals = Len(sum_results)

\* a summary of results of which some, not all, have a 30-day return
C8_Witness ==
    /\ SummaryDone
    /\ Cardinality(ValidIdx) = 2
    /\ Len(sum_results) = 3
    /\ Val(summary).winners = 1
    /\ Val(summary).losers = 1

\* a summary of results none of which has a 30-day return
C8_WitnessNoValid ==
    /\ SummaryDone
    /\ ValidIdx = {}
    /\ Val(summary).total_signals = 2
    /\ Val(summary).sharpe_ratio = None

\* C9: sharpe_ratio is None when fewer than 2 results have return_30d, and
\* otherwise the finite value mean / stdev x sqrt(12): never NaN or infinite,
\* also when all 30-day returns are equal.
C9_SharpeFiniteOrNone ==
    SummaryDone =>
        LET s == Val(summary)
            n == Cardinality(ValidIdx)
        IN  /\ n < 2 => s.sharpe_ratio = None
            /\ n >= 2 =>
                 /\ s.sharpe_ratio # None
                 /\ Val(s.sharpe_ratio).kind = "finite"

\* C10 as stated: profit_factor is gains / |losses| and is None exactly when
\* summary.losers = 0.
C10_Original ==
    SummaryDone =>
        LET s == Val(summary)
        IN  /\ s.profit_factor = None <=> s.losers = 0
            /\ s.losers >= 1 => s.profit_factor # None

\* C10 (amended): profit_factor is (sum of positive 30d returns) / |sum of
\* negative 30d returns| and is None exactly when no 30d return is negative;
\* whenever some 30d return is negative it is a number (0 when there are no
\* gains).
C10_ProfitFactor ==
    SummaryDone =>
        LET s == Val(summary)
            P == {i \in ValidIdx : RLess(RZero, R30(i))}
            N == {i \in ValidIdx : RLess(R30(i), RZero)}
        IN  /\ s.profit_factor = None <=> N = {}
            /\ N # {} =>
                 /\ REq(Val(s.profit_factor), RDiv(SumR30(P), RNeg(SumR30(N))))
                 /\ P = {} => REq(Val(s.profit_factor), RZero)

\* a summary that counts a loser (a flat 30-day return) and has no profit
\* factor
C10_Witness ==
    /\ SummaryDone
    /\ Val(summary).losers >= 1
    /\ Val(summary).profit_factor = None

\* a summary with losses and no gains: profit factor 0
C10_WitnessZero ==
    /\ SummaryDone
    /\ Val(summary).profit_factor # None
    /\ Val(summary).profit_factor = Some(RZero)

(***************************************************************************)
(* Backtest runs that share tickers: the price cache                       *)
(***************************************************************************)
\* the most midnights that pass during one run
MaxMidnights == 1

\* signals of two tickers generated on two days
CacheSignals ==
    {Signal(tk, gen, "buy") : tk \in {"AAPL", "MSFT"}, gen \in {GenDay, GenDay + 1}}

\* two different series of three rows, and the empty series
CacheSeries ==
    {MkRows(0, GenDay - 1, FALSE, <<100, 100, 100, 100>>, 115),
     MkRows(3, GenDay - 1, FALSE, <<100, 100, 100, 100>>, 115),
     MkRows(3, GenDay - 1, FALSE, <<90, 100, 115, 100>>, 115)}

InitCache ==
    /\ phase = "bt_loop"
    /\ AggIdle
    /\ GenIdle
    /\ SumIdle
    /\ IoIdle
    /\ \E k \in 0..MaxSignals : signals \in [1..k -> CacheSignals]
    /\ results = <<>>
    /\ self_results = <<>>
    /\ price_cache = <<>>
    /\ now = GenDay + MaxRows
    /\ calls = <<>>

\* the provider answers with a series
FetchCache == InLoop /\ \E rows \in CacheSeries : BacktestStep(Rows(rows))

\* datetime.now() of the next backtest_signal falls on the next day
Midnight ==
    /\ InLoop
    /\ now < GenDay + MaxRows + MaxMidnights
    /\ now' = now + 1
    /\ UNCHANGED <<phase, signals, results, self_results, price_cache, calls,
                   aggVars, genVars, sumVars, ioVars>>

NextCache == FetchCache \/ FetchRaises \/ Midnight \/ BacktestFinish

SpecCache == InitCache /\ [][NextCache]_vars

\* call j fetched a non-empty series from the provider
FetchedSeries(j) == calls[j].fetched /\ calls[j].df # None

\* C11 as stated: after a successful fetch for a ticker, every later signal of
\* the run with that ticker is served from price_cache, the provider is not
\* called again
C11_Original ==
    \A j, k \in 1..Len(calls) :
        (j < k /\ FetchedSeries(j)
               /\ calls[k].signal.ticker = calls[j].signal.ticker)
            => ~calls[k].fetched

\* C11: after a successful fetch for a ticker, a later signal of the run with
\* the same ticker and the same generation date, backtested on the same
\* current date, is served from price_cache (the same series, the provider is
\* not called again); the fetched series is in the cache under its key
C11_SameKeyServedFromCache ==
    /\ \A j \in 1..Len(calls) :
        FetchedSeries(j) =>
            /\ calls[j].key \in DOMAIN price_cache
            /\ Some(price_cache[calls[j].key]) = calls[j].df
    /\ \A j, k \in 1..Len(calls) :
        (j < k /\ FetchedSeries(j)
               /\ calls[k].signal.ticker = calls[j].signal.ticker
               /\ calls[k].signal.generated_at = calls[j].signal.generated_at
               /\ calls[k].key[3] = calls[j].key[3])
            => ~calls[k].fetched /\ calls[k].df = calls[j].df

\* a second signal of the same ticker and day is served the cached series
C11_Witness ==
    \E j, k \in 1..Len(calls) :
        /\ j < k
        /\ FetchedSeries(j)
        /\ calls[k].key = calls[j].key
        /\ ~calls[k].fetched
        /\ calls[k].df = calls[j].df
        /\ calls[k].result # None

(***************************************************************************)
(* signal_engine.py: the per-source signal generators                      *)
(*                                                                         *)
(* A generated strength is held in units of 1/200 (0.005), a put/call      *)
(* ratio in hundredths, a dollar value in dollars.  The model keeps the    *)
(* source, direction and strength of the returned component; its details   *)
(* text, timestamp and raw_data are left out.                              *)
(***************************************************************************)
\* AlertsConfig defaults
insider_cluster_min_count == 3
institutional_min_filers == 2

\* the strength 1.0
GenOne == 200

Min(a, b) == IF a <= b THEN a ELSE b

GenComponent(s, d, x) == [source |-> s, direction |-> d, strength |-> x]

\* SignalEngine.generate_institutional_signal; notable is len(notable_filers)
generate_institutional_signal(tk, filer_count, notable) ==
    IF filer_count < institutional_min_filers THEN None
    ELSE LET strength      == Min(GenOne, 40 + filer_count * 20)
             notable_boost == Min(40, notable * 10)
         IN  Some(GenComponent("institutional", "buy",
                               Min(GenOne, strength + notable_boost)))

\* SignalEngine.generate_insider_signal
generate_insider_signal(tk, insider_count, total_value, is_cluster_buy, executive_buys) ==
    IF ~is_cluster_buy \/ insider_count < insider_cluster_min_count THEN None
    ELSE LET base   == Min(GenOne, 60 + insider_count * 30)
             valued == IF total_value > 1000000 THEN Min(GenOne, base + 40)
                       ELSE IF total_value > 500000 THEN Min(GenOne, base + 20)
                       ELSE base
         IN  Some(GenComponent("insider", "buy",
                               Min(GenOne, valued + executive_buys * 20)))

\* (faulty variant) the strength of the net trades not capped before the boost
CongressionalUncappedBase(tk, trade_count, buy_count, sell_count, notable) ==
    LET net == buy_count - sell_count
    IN  IF trade_count < 2 THEN None
        ELSE IF net = 0 THEN None
        ELSE Some(GenComponent("congressional",
                               IF net > 0 THEN "buy" ELSE "sell",
                               IF notable > 0 THEN Min(GenOne, Abs(net) * 40 + 30)
                               ELSE Abs(net) * 40))

\* SignalEngine.generate_congressional_signal; notable is len(notable_traders)
generate_congressional_signal(tk, trade_count, buy_count, sell_count, notable) ==
    LET net      == buy_count - sell_count
        strength == Min(GenOne, Abs(net) * 40)
    IN  IF trade_count < 2 THEN None
        ELSE IF net = 0 THEN None
        ELSE Some(GenComponent("congressional",
                               IF net > 0 THEN "buy" ELSE "sell",
                               IF notable > 0 THEN Min(GenOne, strength + 30)
                               ELSE strength))

\* (faulty variant) the dead zone's upper boundary taken as bearish
OptionsBearishFrom120(tk, put_call_ratio, unusual_count) ==
    IF unusual_count = 0 THEN None
    ELSE IF put_call_ratio < 50
         THEN Some(GenComponent("options_flow", "buy",
                   Min(GenOne, Min(GenOne, (70 - put_call_ratio) * 4)
                               + unusual_count * 10)))
    ELSE IF put_call_ratio >= 120
         THEN Some(GenComponent("options_flow", "sell",
                   Min(GenOne, Min(GenOne, put_call_ratio - 100)
                               + unusual_count * 10)))
    ELSE None

\* SignalEngine.generate_options_signal; unusual_count is len(unusual_activity)
generate_options_signal(tk, put_call_ratio, unusual_count) ==
    IF unusual_count = 0 THEN None
    ELSE IF put_call_ratio < 50
         THEN Some(GenComponent("options_flow", "buy",
                   Min(GenOne, Min(GenOne, (70 - put_call_ratio) * 4)
                               + unusual_count * 10)))
    ELSE IF put_call_ratio > 120
         THEN Some(GenComponent("options_flow", "sell",
                   Min(GenOne, Min(GenOne, put_call_ratio - 100)
                               + unusual_count * 10)))
    ELSE None

\* how a generator call ends: no statement of the four generators raises
Returned(component) == [raised |-> FALSE, component |-> component]

(***************************************************************************)
(* Inputs of the generator calls                                           *)
(***************************************************************************)
\* the largest count, and the largest number of list entries
MaxCount == 10
MaxListed == 5

\* the largest put/call ratio, in hundredths
MaxRatio == 350

GenTickers == {"AAPL", ""}

Counts == (0 - MaxCount)..MaxCount

DollarValues == {0 - 1, 0, 500000, 500001, 1000000, 1000001}

Ratios == (0 - 50)..MaxRatio

InitGen ==
    /\ phase = "gen_ready"
    /\ AggIdle
    /\ BtIdle
    /\ SumIdle
    /\ IoIdle
    /\ gen_call = None
    /\ gen_result = None

GenReady == phase = "gen_ready"

GenDone(call, component) ==
    /\ gen_call' = Some(call)
    /\ gen_result' = Some(Returned(component))
    /\ phase' = "gen_done"
    /\ UNCHANGED <<aggVars, btVars, sumVars, ioVars>>

GenerateInstitutional ==
    GenReady /\ \E tk \in GenTickers, filer_count \in Counts, notable \in 0..MaxListed :
        GenDone([generator |-> "institutional", ticker |-> tk,
                 filer_count |-> filer_count, notable |-> notable],
                generate_institutional_signal(tk, filer_count, notable))

GenerateInsider ==
    GenReady /\ \E tk \in GenTickers, insider_count \in Counts, total_value \in DollarValues,
       is_cluster_buy \in BOOLEAN, executive_buys \in Counts :
        GenDone([generator |-> "insider", ticker |-> tk,
                 insider_count |-> insider_count, total_value |-> total_value,
                 is_cluster_buy |-> is_cluster_buy,
                 executive_buys |-> executive_buys],
                generate_insider_signal(tk, insider_count, total_value,
                                        is_cluster_buy, executive_buys))

GenerateCongressional ==
    GenReady /\ \E tk \in GenTickers, trade_count \in Counts, buy_count \in Counts,
       sell_count \in Counts, notable \in 0..1 :
        GenDone([generator |-> "congressional", ticker |-> tk,
                 trade_count |-> trade_count, buy_count |-> buy_count,
                 sell_count |-> sell_count, notable |-> notable],
                generate_congressional_signal(tk, trade_count, buy_count,
                                              sell_count, notable))

GenerateOptions ==
    GenReady /\ \E tk \in GenTickers, put_call_ratio \in Ratios, unusual_count \in 0..MaxListed :
        GenDone([generator |-> "options_flow", ticker |-> tk,
                 put_call_ratio |-> put_call_ratio,
                 unusual_count |-> unusual_count],
                generate_options_signal(tk, put_call_ratio, unusual_count))

NextGen ==
    GenerateInstitutional \/ GenerateInsider \/ GenerateCongressional
    \/ GenerateOptions

SpecGen == InitGen /\ [][NextGen]_vars

(***************************************************************************)
(* Claims about the generators                                             *)
(***************************************************************************)
Generated == phase = "gen_done"

Call == Val(gen_call)

Outcome == Val(gen_result)

Returns == Generated /\ ~Outcome.raised /\ Outcome.component # None

Component1 == Val(Outcome.component)

\* C12: every component a generator returns has a strength in [0, 1],
\* whatever the inputs (negative counts and ratios included)
C12_StrengthInUnitInterval ==
    Returns => Component1.strength >= 0 /\ Component1.strength <= GenOne

\* whether a call breaks the input contract: an empty ticker, a negative count
NegativeCount ==
    CASE Call.generator = "institutional" -> Call.filer_count < 0
      [] Call.generator = "insider" ->
            Call.insider_count < 0 \/ Call.executive_buys < 0
      [] Call.generator = "congressional" ->
            Call.trade_count < 0 \/ Call.buy_count < 0 \/ Call.sell_count < 0
      [] OTHER -> FALSE

BreaksContract == Call.ticker = "" \/ NegativeCount

\* C13: a generator called with an empty ticker or a negative count fails
\* with a validation error, it returns neither a component nor None
C13_ContractViolationRejected ==
    (Generated /\ BreaksContract) => Outcome.raised

\* C14: generate_congressional_signal returns no component when
\* trade_count < 2 or buy_count = sell_count; otherwise the component is BUY
\* if buy_count > sell_count and SELL if buy_count < sell_count, its strength
\* is min(1.0, 0.2 x |buy_count - sell_count|), plus 0.15 capped at 1.0 when
\* there are notable traders, so it is at least 0.2
C14_Congressional ==
    (Generated /\ Call.generator = "congressional") =>
        LET net  == Call.buy_count - Call.sell_count
            dist == IF net >= 0 THEN net ELSE 0 - net
            base == IF dist * 40 >= 200 THEN 200 ELSE dist * 40
        IN  /\ ~Outcome.raised
            /\ Outcome.component = None
                   <=> (Call.trade_count < 2 \/ Call.buy_count = Call.sell_count)
            /\ Outcome.component # None =>
                /\ Component1.source = "congressional"
                /\ Call.buy_count > Call.sell_count => Component1.direction = "buy"
                /\ Call.buy_count < Call.sell_count => Component1.direction = "sell"
                /\ Call.notable = 0 => Component1.strength = base
                /\ Call.notable > 0 =>
                       Component1.strength = (IF base + 30 >= 200 THEN 200 ELSE base + 30)
                /\ Component1.strength >= 40

\* 3 net sales by a notable trader: SELL, 0.6 + 0.15
C14_Witness ==
    /\ Returns
    /\ Call.generator = "congressional"
    /\ Call.buy_count = 1 /\ Call.sell_count = 4 /\ Call.notable = 1
    /\ Component1.direction = "sell"
    /\ Component1.strength = 150

\* 6 net purchases by a notable trader: the base 1.2 is capped before the boost
C14_WitnessCapped ==
    /\ Returns
    /\ Call.generator = "congressional"
    /\ Call.buy_count - Call.sell_count = 6 /\ Call.notable = 1
    /\ Component1.strength = 200

\* C15: generate_options_signal returns no component when the unusual
\* activity list is empty or the put/call ratio is in 0.5..1.2, boundaries
\* included; with a non-empty list it returns BUY for a ratio below 0.5 with
\* base strength min(1, (0.7 - ratio) x 2) and SELL for a ratio above 1.2 with
\* base strength min(1, (ratio - 1.0) x 0.5), and adds 0.05 per unusual
\* contract, capped at 1.0
C15_Options ==
    (Generated /\ Call.generator = "options_flow") =>
        LET r     == Call.put_call_ratio
            n     == Call.unusual_count
            Cap(x) == IF x >= 200 THEN 200 ELSE x
        IN  /\ ~Outcome.raised
            /\ Outcome.component = None <=> (n = 0 \/ (r >= 50 /\ r <= 120))
            /\ Outcome.component # None =>
                /\ Component1.source = "options_flow"
                /\ r < 50 =>
                    /\ Component1.direction = "buy"
                    /\ Component1.strength = Cap(Cap((70 - r) * 4) + n * 10)
                /\ r > 120 =>
                    /\ Component1.direction = "sell"
                    /\ Component1.strength = Cap(Cap(r - 100) + n * 10)

\* a ratio of 1.21 with one unusual contract: SELL, 0.105 + 0.05
C15_Witness ==
    /\ Returns
    /\ Call.generator = "options_flow"
    /\ Call.put_call_ratio = 121 /\ Call.unusual_count = 1
    /\ Component1.direction = "sell"
    /\ Component1.strength = 31

\* the boundary 1.2 with unusual contracts gives no component
C15_WitnessBoundary ==
    /\ Generated
    /\ Call.generator = "options_flow"
    /\ Call.put_call_ratio = 120 /\ Call.unusual_count > 0
    /\ Outcome.component = None

(***************************************************************************)
(* Claims about the signal aggregate_signals builds                        *)
(***************************************************************************)
Signal1 == Val(trading_signal)

\* C16: the strength of an emitted signal is a function of its confidence
\* alone: WEAK below 0.6, MODERATE from 0.6 up to but excluding 0.8, STRONG
\* from 0.8
C16_StrengthByConfidence ==
    Emitted =>
        LET c == Signal1.confidence
        IN  Signal1.strength =
                IF 10 * c[1] < 6 * c[2] THEN "weak"
                ELSE IF 10 * c[1] < 8 * c[2] THEN "moderate"
                ELSE "strong"

\* a confidence of exactly 0.6 is MODERATE
C16_Witness ==
    /\ Emitted
    /\ 10 * Signal1.confidence[1] = 6 * Signal1.confidence[2]
    /\ Signal1.strength = "moderate"

\* a confidence of exactly 0.8 is STRONG
C16_WitnessStrong ==
    /\ Emitted
    /\ 10 * Signal1.confidence[1] = 8 * Signal1.confidence[2]
    /\ Signal1.strength = "strong"

\* the positions of the input components that have the signal's direction
WinnerIdx ==
    {i \in 1..Len(components) : components[i].direction = Signal1.direction}

\* the k-th smallest member of a set of positions
KthOf(S, k) == CHOOSE i \in S : Cardinality({j \in S : j < i}) = k - 1

\* the details of the first n of a sequence of components, ' | ' between them
RECURSIVE NotesUpTo(_, _)
NotesUpTo(cs, n) ==
    IF n = 0 THEN ""
    ELSE IF n = 1 THEN cs[1].details
    ELSE NotesUpTo(cs, n - 1) \o " | " \o cs[n].details

\* C17: signal.components is exactly the sub-sequence of the input components
\* that have the winning direction, in input order; notes is their details
\* joined by ' | ' in that order; signal_type is COMPOSITE when there is more
\* than one such component and the single component's source otherwise
C17_WinningSubsequence ==
    Emitted =>
        LET active == Signal1.components
            n      == Cardinality(WinnerIdx)
        IN  /\ Len(active) = n
            /\ \A k \in 1..n : active[k] = components[KthOf(WinnerIdx, k)]
            /\ Signal1.notes = NotesUpTo(active, n)
            /\ n > 1 => Signal1.signal_type = "composite"
            /\ n = 1 => Signal1.signal_type = components[KthOf(WinnerIdx, 1)].source

\* two different winners around a loser: the winners in input order
C17_Witness ==
    /\ Emitted
    /\ Len(components) = 3
    /\ components[1].direction = Signal1.direction
    /\ components[2].direction # Signal1.direction
    /\ components[3].direction = Signal1.direction
    /\ components[1] # components[3]
    /\ Signal1.components = <<components[1], components[3]>>
    /\ Signal1.notes = components[1].details \o " | " \o components[3].details
    /\ Signal1.signal_type = "composite"

\* a single winner: the signal has its source and its details
C17_WitnessSingle ==
    /\ Emitted
    /\ Len(components) = 2
    /\ Signal1.components = <<components[2]>>
    /\ Signal1.signal_type = components[2].source
    /\ Signal1.notes = components[2].details

\* the input list with its HOLD components removed
WithoutHold(cs) == SelectSeq(cs, LAMBDA c : c.direction # "hold")

\* C18: HOLD components are ignored: the outcome is the one of the same list
\* with the HOLD components removed (the same clock readings given), and a
\* list of HOLD components only yields no signal
C18_HoldIgnored ==
    AggDone =>
        /\ WithoutHold(components) = <<>> => trading_signal = None
        /\ WithoutHold(components) # <<>> =>
            \/ /\ trading_signal = None
               /\ aggregate_signals(ticker, WithoutHold(components), None, 0, 0) = None
            \/ /\ trading_signal # None
               /\ trading_signal =
                      aggregate_signals(ticker, WithoutHold(components), None,
                                        Signal1.generated_at,
                                        Signal1.expires_at - timedelta(ExpiryDays))

\* a HOLD component between two components of a signal that is emitted
C18_Witness ==
    /\ Emitted
    /\ Len(components) = 3
    /\ components[2].direction = "hold"
    /\ Len(Signal1.components) = 2

\* a list of HOLD components only
C18_WitnessOnlyHold ==
    /\ AggDone
    /\ Len(components) = 2
    /\ WithoutHold(components) = <<>>
    /\ trading_signal = None

\* C19: expires_at of an emitted signal is generated_at plus exactly 30 days
C19_ExpiresThirtyDaysAfter ==
    Emitted => Signal1.expires_at = Signal1.generated_at + ExpiryDays * TicksPerDay

\* a signal without its two timestamps
Untimed(signal) ==
    IF signal = None THEN None
    ELSE Some([Val(signal) EXCEPT !.generated_at = 0, !.expires_at = 0])

DistinctSources(cs, d) ==
    Cardinality({Filter(cs, d)[i].source : i \in 1..Len(Filter(cs, d))})

\* C21: a direction's score is multiplied by the bonus only when components
\* of at least 2 distinct sources agree on that direction; two components of
\* that direction with the same source tag do not earn the bonus
C21_BonusNeedsDistinctSources ==
    (AggDone /\ components # <<>>) =>
        /\ DistinctSources(components, "buy") < 2 =>
               buy_score = BaseScore(components, "buy")
        /\ DistinctSources(components, "sell") < 2 =>
               sell_score = BaseScore(components, "sell")

\* C22: max_gain and max_drawdown are set together and only if the 30 rows
\* after the anchor exist, so never while return_30d is unset
C22_GainWindowOnlyWithReturn30d ==
    \A k \in Produced :
        LET c    == calls[k]
            r    == Val(c.result)
            rows == Val(c.df)
            a    == ClaimAnchor(rows, c.signal.generated_at)
        IN  /\ r.max_gain # None <=> r.max_drawdown # None
            /\ r.max_gain # None => (a + 30 <= Len(rows) /\ r.return_30d # None)

\* the score of the direction that lost, in 1/800
LosingScore ==
    IF Signal1.direction = "buy" THEN sell_score ELSE buy_score

\* C28: a signal emitted while the opposing direction's score is 0 has the
\* direction of its components, a confidence of at least 0.5/0.6 and strength
\* STRONG; a WEAK or MODERATE signal has a positive losing score
C28_UnopposedIsStrong ==
    Emitted =>
        /\ LosingScore = 0 =>
            /\ \A i \in 1..Len(Signal1.components) :
                   Signal1.components[i].direction = Signal1.direction
            /\ 6 * Signal1.confidence[1] >= 5 * Signal1.confidence[2]
            /\ 2 * Signal1.confidence[1] > Signal1.confidence[2]
            /\ Signal1.strength = "strong"
        /\ Signal1.strength \in {"weak", "moderate"} => LosingScore > 0

\* a single component at the floor: confidence exactly 0.5/0.6, STRONG
C28_Witness ==
    /\ Emitted
    /\ Len(components) = 1
    /\ LosingScore = 0
    /\ 6 * Signal1.confidence[1] = 5 * Signal1.confidence[2]
    /\ Signal1.strength = "strong"

\* a WEAK signal, its losing direction has a positive score
C28_WitnessWeak ==
    /\ Emitted
    /\ Signal1.strength = "weak"
    /\ LosingScore > 0

\* C29: in every result with max_gain and max_drawdown set, each horizon
\* return that is set lies between max_drawdown and max_gain
C29_ReturnsWithinGainAndDrawdown ==
    \A k \in Produced :
        LET r == Val(calls[k].result)
        IN  (r.max_gain # None /\ r.max_drawdown # None) =>
                \A h \in {1, 7, 30} :
                    ReturnField(r, h) # None =>
                        /\ RLeq(Val(r.max_drawdown), Val(ReturnField(r, h)))
                        /\ RLeq(Val(ReturnField(r, h)), Val(r.max_gain))

\* call k asked the provider and got nothing: it raised or returned no rows
FetchFailed(k) == calls[k].fetched /\ (calls[k].raised \/ calls[k].empty)

\* C30: in get_price_data a fetch that raises or returns an empty series
\* leaves price_cache unchanged and gives None, so a later call with the same
\* key asks the provider again; no call overwrites or removes a cache entry;
\* a cache hit returns the stored series, does not ask the provider and
\* leaves the cache unchanged
C30_CacheFrame ==
    [][Len(calls') = Len(calls) + 1 =>
        LET k == Len(calls')
            c == calls'[k]
        IN  /\ \A key \in DOMAIN price_cache :
                 key \in DOMAIN price_cache' /\ price_cache'[key] = price_cache[key]
            /\ (c.fetched /\ (c.raised \/ c.empty)) =>
                 price_cache' = price_cache /\ c.df = None
            /\ ~c.fetched =>
                 /\ c.key \in DOMAIN price_cache
                 /\ c.df = Some(price_cache[c.key])
                 /\ price_cache' = price_cache
            /\ (\A j \in 1..(k - 1) :
                    calls'[j].key = c.key => (~calls'[j].fetched \/ calls'[j].df = None))
                 => c.fetched]_vars

\* a failed fetch, then a fetch of the same key that succeeds, then a hit
C30_Witness ==
    \E i, j, k \in 1..Len(calls) :
        /\ i < j /\ j < k
        /\ calls[i].key = calls[j].key /\ calls[j].key = calls[k].key
        /\ FetchFailed(i)
        /\ FetchedSeries(j)
        /\ ~calls[k].fetched
        /\ calls[k].df = calls[j].df
        /\ DOMAIN price_cache = {calls[k].key}

(***************************************************************************)
(* scripts/scheduler.py: the ranking at the end of                         *)
(* analyze_and_generate_signals                                            *)
(*                                                                         *)
(* The signals of one run have distinct tickers (they come from the keys   *)
(* of ticker_stats); a ticker is held as its number in insertion order.    *)
(***************************************************************************)
\* return signals[:10]
TopN == 10

\* the most signals one run produces
MaxRanked == 11

\* where x goes in a list sorted by list.sort(key=confidence, reverse=True):
\* behind every element whose confidence is not below its own
RECURSIVE InsertByConfidence(_, _)
InsertByConfidence(sorted, x) ==
    IF sorted = <<>> THEN <<x>>
    ELSE IF RLess(Head(sorted).confidence, x.confidence) THEN <<x>> \o sorted
    ELSE <<Head(sorted)>> \o InsertByConfidence(Tail(sorted), x)

\* (faulty variant) sorted ascending and then reversed: ties come out reversed
RECURSIVE SortReversingTies(_)
SortReversingTies(xs) ==
    IF xs = <<>> THEN <<>>
    ELSE LET rest == SortReversingTies(SubSeq(xs, 1, Len(xs) - 1))
             x    == xs[Len(xs)]
             Ins[i \in 1..(Len(rest) + 1)] ==
                 IF i > Len(rest) THEN i
                 ELSE IF RLess(x.confidence, rest[i].confidence) THEN Ins[i + 1]
                 ELSE i
             at   == Ins[1]
         IN  SubSeq(rest, 1, at - 1) \o <<x>> \o SubSeq(rest, at, Len(rest))

\* signals.sort(key=lambda x: x.confidence, reverse=True): a stable sort
RECURSIVE SortByConfidence(_)
SortByConfidence(xs) ==
    IF xs = <<>> THEN <<>>
    ELSE InsertByConfidence(SortByConfidence(SubSeq(xs, 1, Len(xs) - 1)),
                            xs[Len(xs)])

\* signals[:n]
Slice(xs, n) == SubSeq(xs, 1, Min(n, Len(xs)))

\* the confidences a signal of one congressional component can have when it
\* passes signal.confidence >= 0.5: 0.57/0.67 and 0.6/0.7
RankConfidences == {<<57, 67>>, <<6, 7>>}

RankedSignal(i, conf) == [ticker |-> i, confidence |-> conf]

\* the state when the loop over ticker_stats has filled `signals`
InitRank ==
    /\ phase = "rank_ready"
    /\ AggIdle
    /\ GenIdle
    /\ BtIdle
    /\ SumIdle
    /\ RepoIdle
    /\ CollIdle
    /\ LimIdle
    /\ \E n \in 0..MaxRanked :
         \E confs \in [1..n -> RankConfidences] :
             rank_signals = [i \in 1..n |-> RankedSignal(i, confs[i])]
    /\ top_signals = None

\* signals.sort(...); self.stats["signals_generated"] = len(signals);
\* return signals[:10]
RankAndReturn ==
    /\ phase = "rank_ready"
    /\ rank_signals' = SortByConfidence(rank_signals)
    /\ top_signals' = Some([signals_generated |-> Len(rank_signals),
                            returned |-> Slice(SortByConfidence(rank_signals), TopN)])
    /\ phase' = "rank_done"
    /\ UNCHANGED <<aggVars, genVars, btVars, sumVars, repoVars, collVars, limVars>>

NextRank == RankAndReturn

SpecRank == InitRank /\ [][NextRank]_vars

\* the position of x in a list that holds it once
PosIn(xs, x) == CHOOSE j \in 1..Len(xs) : xs[j] = x

\* C23: the ranked list is a permutation of the produced signals in
\* non-increasing confidence order, signals of equal confidence keep their
\* input order, and the returned top-N (N = 10) is the first N of the ranking
C23_StableRanking ==
    [][phase' = "rank_done" =>
        LET in  == rank_signals
            out == rank_signals'
            top == Val(top_signals').returned
        IN  /\ Len(out) = Len(in)
            /\ \A i \in 1..Len(in) : \E j \in 1..Len(out) : out[j] = in[i]
            /\ \A j \in 1..(Len(out) - 1) :
                 ~RLess(out[j].confidence, out[j + 1].confidence)
            /\ \A i1, i2 \in 1..Len(in) :
                 (i1 < i2 /\ REq(in[i1].confidence, in[i2].confidence))
                     => PosIn(out, in[i1]) < PosIn(out, in[i2])
            /\ Len(top) = (IF Len(out) < 10 THEN Len(out) ELSE 10)
            /\ \A j \in 1..Len(top) : top[j] = out[j]]_vars

\* eleven signals, ties and an inversion among them: ten are returned
C23_Witness ==
    /\ phase = "rank_done"
    /\ Len(rank_signals) = 11
    /\ Len(Val(top_signals).returned) = 10
    /\ rank_signals[1].ticker = 2
    /\ rank_signals[2].ticker = 5
    /\ REq(rank_signals[1].confidence, rank_signals[2].confidence)
    /\ RLess(rank_signals[11].confidence, rank_signals[1].confidence)
    /\ rank_signals[11].ticker = 11

(***************************************************************************)
(* storage/repository.py: Repository.get_or_create_institution             *)
(*                                                                         *)
(* The table institutions, as one session sees it, is the sequence of its  *)
(* rows in insertion order; a row keeps id, cik and name.                  *)
(***************************************************************************)
\* the most calls made in one session
MaxRepoCalls == 4

Ciks == {"12345", "67890"}

Names == {"Test Fund", "Other Fund"}

\* session.query(Institution).filter(Institution.cik == cik).first()
QueryFirstByCik(rows, cik) ==
    LET I == {i \in 1..Len(rows) : rows[i].cik = cik}
    IN  IF I = {} THEN None ELSE Some(rows[CHOOSE i \in I : \A j \in I : i <= j])

\* Institution(cik=cik, name=name) after session.add and session.flush: the
\* primary key is the next row id
NewInstitution(rows, cik, name) == [id |-> Len(rows) + 1, cik |-> cik, name |-> name]

\* (faulty variant) a row is added when the existing row has another name
InstitutionsAfterPerName(rows, cik, name) ==
    IF \E i \in 1..Len(rows) : rows[i].cik = cik /\ rows[i].name = name
    THEN rows
    ELSE Append(rows, NewInstitution(rows, cik, name))

\* the table after get_or_create_institution(session, cik, name)
InstitutionsAfter(rows, cik, name) ==
    IF QueryFirstByCik(rows, cik) = None
    THEN Append(rows, NewInstitution(rows, cik, name))
    ELSE rows

\* Repository.get_or_create_institution: the returned Institution
get_or_create_institution(rows, cik, name) ==
    IF QueryFirstByCik(rows, cik) = None
    THEN NewInstitution(rows, cik, name)
    ELSE Val(QueryFirstByCik(rows, cik))

\* a fresh session on an empty database
InitRepo ==
    /\ phase = "repo"
    /\ AggIdle
    /\ GenIdle
    /\ BtIdle
    /\ SumIdle
    /\ RankIdle
    /\ CollIdle
    /\ LimIdle
    /\ institutions = <<>>
    /\ repo_calls = <<>>

GetOrCreateInstitution ==
    /\ phase = "repo"
    /\ Len(repo_calls) < MaxRepoCalls
    /\ \E cik \in Ciks, name \in Names :
        /\ institutions' = InstitutionsAfter(institutions, cik, name)
        /\ repo_calls' = Append(repo_calls,
               [cik |-> cik, name |-> name,
                returned |-> get_or_create_institution(institutions, cik, name),
                rows_before |-> institutions,
                rows_after |-> InstitutionsAfter(institutions, cik, name)])
    /\ UNCHANGED <<phase, aggVars, genVars, btVars, sumVars, rankVars, collVars, limVars>>

NextRepo == GetOrCreateInstitution

SpecRepo == InitRepo /\ [][NextRepo]_vars

\* C24: after any sequence of get_or_create_institution calls in one session
\* there is at most one institution row per cik, and a call with a cik that
\* already exists returns the existing row (the same id) without creating a
\* row or changing a field of it
C24_OneRowPerCik ==
    /\ \A i, j \in 1..Len(institutions) :
         institutions[i].cik = institutions[j].cik => i = j
    /\ \A k \in 1..Len(repo_calls) :
         LET c == repo_calls[k]
         IN  /\ c.returned.cik = c.cik
             /\ \A j \in 1..(k - 1) :
                  repo_calls[j].cik = c.cik =>
                      /\ c.returned.id = repo_calls[j].returned.id
                      /\ c.returned = repo_calls[j].returned
                      /\ c.rows_after = c.rows_before
                      /\ \E i \in 1..Len(institutions) :
                           institutions[i] = repo_calls[j].returned

\* the second call for a cik, with another name, returns the first call's row
C24_Witness ==
    /\ Len(repo_calls) >= 3
    /\ repo_calls[1].cik = repo_calls[3].cik
    /\ repo_calls[2].cik # repo_calls[1].cik
    /\ repo_calls[3].name # repo_calls[1].name
    /\ repo_calls[3].returned.id = 1
    /\ repo_calls[3].returned.name = repo_calls[1].name
    /\ Len(institutions) = 2

(***************************************************************************)
(* collectors/congressional.py: CongressionalCollector.get_all_house_trades*)
(*                                                                         *)
(* A source's answer is an exception or a list of items; an item either    *)
(* parses into a trade or not (the parsers return None, they never raise). *)
(* A trade is held as its source and the position of its item.             *)
(***************************************************************************)
\* the number of entries of demo_data
DemoCount == 10

\* the most items a source returns
MaxItems == 2

SourceRaises == [ok |-> FALSE, items |-> <<>>]
SourceReturns(items) == [ok |-> TRUE, items |-> items]

\* trades = [parse(item) for item in items if parse(item)]
RECURSIVE ParseFrom(_, _, _)
ParseFrom(items, source, i) ==
    IF i > Len(items) THEN <<>>
    ELSE IF items[i] THEN <<[source |-> source, item |-> i]>>
                          \o ParseFrom(items, source, i + 1)
    ELSE ParseFrom(items, source, i + 1)

ParseTrades(items, source) == ParseFrom(items, source, 1)

\* CongressionalCollector._get_demo_trades
get_demo_trades == [i \in 1..DemoCount |-> [source |-> "demo", item |-> i]]

\* (faulty variant) the Unusual Whales trades are returned also when none parsed
UwReturnsUnparsed(c) ==
    /\ c.api_key
    /\ c.uw.ok
    /\ c.uw.items # <<>>

\* whether the Unusual Whales branch returns: a key is configured, the call
\* does not raise, uw_data is not empty and at least one item parses
UwReturns(c) ==
    /\ c.api_key
    /\ c.uw.ok
    /\ c.uw.items # <<>>
    /\ ParseTrades(c.uw.items, "unusual_whales") # <<>>

\* the sources get_all_house_trades asks, in the order it asks them
SourcesTried(c) ==
    (IF c.api_key THEN <<"unusual_whales">> ELSE <<>>)
    \o (IF UwReturns(c) THEN <<>>
        ELSE IF c.house.ok THEN <<"house_stock_watcher">>
        ELSE <<"house_stock_watcher", "demo">>)

\* CongressionalCollector.get_all_house_trades
get_all_house_trades(c) ==
    IF UwReturns(c)
    THEN [raised |-> FALSE, tried |-> SourcesTried(c),
          trades |-> ParseTrades(c.uw.items, "unusual_whales")]
    ELSE IF c.house.ok
    THEN [raised |-> FALSE, tried |-> SourcesTried(c),
          trades |-> ParseTrades(c.house.items, "house_stock_watcher")]
    ELSE [raised |-> FALSE, tried |-> SourcesTried(c), trades |-> get_demo_trades]

\* what a source can answer
SourceAnswers ==
    {SourceRaises}
    \cup {SourceReturns(items) : items \in UNION {[1..n -> BOOLEAN] : n \in 0..MaxItems}}

InitColl ==
    /\ phase = "coll_ready"
    /\ AggIdle
    /\ GenIdle
    /\ BtIdle
    /\ SumIdle
    /\ RankIdle
    /\ RepoIdle
    /\ LimIdle
    /\ \E api_key \in BOOLEAN, uw \in SourceAnswers, house \in SourceAnswers :
         coll_call = Some([api_key |-> api_key, uw |-> uw, house |-> house])
    /\ coll_result = None

GetAllHouseTrades ==
    /\ phase = "coll_ready"
    /\ coll_result' = Some(get_all_house_trades(Val(coll_call)))
    /\ phase' = "coll_done"
    /\ UNCHANGED <<coll_call, aggVars, genVars, btVars, sumVars, rankVars, repoVars,
                   limVars>>

NextColl == GetAllHouseTrades

SpecColl == InitColl /\ [][NextColl]_vars

Collected == phase = "coll_done"

\* C25: get_all_house_trades never raises on a source failure; it asks
\* Unusual Whales first and only when an API key is configured, then House
\* Stock Watcher, then takes the demo data; when every remote source fails it
\* returns the 10 demo trades; it returns Unusual Whales data only when that
\* source yielded at least one parsed trade
C25_FallbackOrder ==
    Collected =>
        LET c == Val(coll_call)
            r == Val(coll_result)
            fromUw == \E i \in 1..Len(r.trades) : r.trades[i].source = "unusual_whales"
        IN  /\ ~r.raised
            /\ r.tried \in {<<"unusual_whales">>,
                            <<"unusual_whales", "house_stock_watcher">>,
                            <<"unusual_whales", "house_stock_watcher", "demo">>,
                            <<"house_stock_watcher">>,
                            <<"house_stock_watcher", "demo">>}
            /\ r.tried[1] = "unusual_whales" <=> c.api_key
            /\ ((~c.api_key \/ ~c.uw.ok) /\ ~c.house.ok) =>
                 /\ Len(r.trades) = 10
                 /\ \A i \in 1..10 : r.trades[i] = [source |-> "demo", item |-> i]
            /\ (r.tried = <<"unusual_whales">> \/ fromUw) =>
                 /\ c.api_key /\ c.uw.ok
                 /\ Len(r.trades) >= 1
                 /\ \A i \in 1..Len(r.trades) :
                      /\ r.trades[i].source = "unusual_whales"
                      /\ c.uw.items[r.trades[i].item]

\* a key is configured and both remote sources raise: the 10 demo trades
C25_Witness ==
    /\ Collected
    /\ Val(coll_call).api_key
    /\ ~Val(coll_call).uw.ok
    /\ ~Val(coll_call).house.ok
    /\ Val(coll_result).tried = <<"unusual_whales", "house_stock_watcher", "demo">>
    /\ Len(Val(coll_result).trades) = 10

\* Unusual Whales answers with items none of which parses: House is asked
C25_WitnessUnparsed ==
    /\ Collected
    /\ Val(coll_call).api_key
    /\ Val(coll_call).uw = SourceReturns(<<FALSE, FALSE>>)
    /\ Val(coll_call).house.ok
    /\ Val(coll_result).tried = <<"unusual_whales", "house_stock_watcher">>

(***************************************************************************)
(* utils/rate_limiter.py: RateLimiter                                      *)
(*                                                                         *)
(* Time is the reading of time.monotonic() in ticks.  Each caller makes    *)
(* one call of wait (threads, serialised by _lock) or of wait_async        *)
(* (coroutines of one event loop, interleaved at the await only).          *)
(***************************************************************************)
\* RateLimiter(2), the limiter of the options flow collector
calls_per_second == 2

\* one second (the 1.0 of wait), in ticks
SecondTicks == 2

\* the number of callers, and the reading up to which the clock runs freely
MaxCallers == 5
MaxMono == 3

Callers == 1..MaxCallers

\* (faulty variant) a deque without maxlen: the first timestamp stays oldest
AppendKeepingAll(ts, t) == Append(ts, t)

\* self.timestamps.append(now) on a deque(maxlen=calls_per_second)
AppendBounded(ts, t) ==
    IF Len(ts) >= calls_per_second THEN Append(Tail(ts), t) ELSE Append(ts, t)

\* whether the caller has to sleep: the deque is full and its oldest
\* timestamp is less than a second old
MustSleep(ts, t) == Len(ts) >= calls_per_second /\ t - ts[1] < SecondTicks

\* sleep_time = 1.0 - elapsed
SleepTime(ts, t) == SecondTicks - (t - ts[1])

InitLimiter ==
    /\ AggIdle
    /\ GenIdle
    /\ BtIdle
    /\ SumIdle
    /\ RankIdle
    /\ RepoIdle
    /\ CollIdle
    /\ mono = 0
    /\ timestamps = <<>>
    /\ lock = None
    /\ callers = [t \in Callers |-> [pc |-> "start", wake |-> 0]]
    /\ admitted = <<>>

InitWait == phase = "wait" /\ InitLimiter

InitWaitAsync == phase = "wait_async" /\ InitLimiter

LimFrame == UNCHANGED <<phase, aggVars, genVars, btVars, sumVars, rankVars, repoVars, collVars>>

\* the clock advances; it is not stopped while a caller sleeps
Tick ==
    /\ phase \in {"wait", "wait_async"}
    /\ \/ mono < MaxMono
       \/ \E t \in Callers : callers[t].pc = "sleeping" /\ callers[t].wake > mono
    /\ mono' = mono + 1
    /\ UNCHANGED <<timestamps, lock, callers, admitted>>
    /\ LimFrame

\* the timestamp `now` is appended and the call returns
Admit(t, unlock) ==
    /\ timestamps' = AppendBounded(timestamps, mono)
    /\ admitted' = Append(admitted, mono)
    /\ callers' = [callers EXCEPT ![t].pc = "done"]
    /\ lock' = IF unlock THEN None ELSE lock

\* the caller goes to sleep for sleep_time
Sleep(t) ==
    /\ callers' = [callers EXCEPT
           ![t] = [pc |-> "sleeping", wake |-> mono + SleepTime(timestamps, mono)]]
    /\ UNCHANGED <<timestamps, admitted>>

\* wait: with self._lock
WaitAcquire(t) ==
    /\ phase = "wait"
    /\ callers[t].pc = "start"
    /\ lock = None
    /\ lock' = Some(t)
    /\ callers' = [callers EXCEPT ![t].pc = "locked"]
    /\ UNCHANGED <<mono, timestamps, admitted>>
    /\ LimFrame

\* wait: now = time.monotonic(), then sleep or append and release
WaitCheck(t) ==
    /\ phase = "wait"
    /\ callers[t].pc = "locked"
    /\ IF MustSleep(timestamps, mono)
       THEN Sleep(t) /\ UNCHANGED lock
       ELSE Admit(t, TRUE)
    /\ UNCHANGED mono
    /\ LimFrame

\* wait: time.sleep returns, now = time.monotonic(), append and release
WaitWake(t) ==
    /\ phase = "wait"
    /\ callers[t].pc = "sleeping"
    /\ mono >= callers[t].wake
    /\ Admit(t, TRUE)
    /\ UNCHANGED mono
    /\ LimFrame

WaitStep(t) == WaitAcquire(t) \/ WaitCheck(t) \/ WaitWake(t)

NextWait == Tick \/ \E t \in Callers : WaitStep(t)

SpecWait == InitWait /\ [][NextWait]_vars

\* every thread that can take a step is scheduled, and time passes
SpecWaitFair ==
    SpecWait /\ WF_vars(Tick) /\ \A t \in Callers : WF_vars(WaitStep(t))

\* wait_async: now = time.monotonic(), then await asyncio.sleep or append
WaitAsyncCheck(t) ==
    /\ phase = "wait_async"
    /\ callers[t].pc = "start"
    /\ IF MustSleep(timestamps, mono)
       THEN Sleep(t) /\ UNCHANGED lock
       ELSE Admit(t, FALSE)
    /\ UNCHANGED mono
    /\ LimFrame

\* wait_async: the sleep is over, now = time.monotonic(), append
WaitAsyncWake(t) ==
    /\ phase = "wait_async"
    /\ callers[t].pc = "sleeping"
    /\ mono >= callers[t].wake
    /\ Admit(t, FALSE)
    /\ UNCHANGED mono
    /\ LimFrame

NextWaitAsync ==
    Tick \/ \E t \in Callers : (WaitAsyncCheck(t) \/ WaitAsyncWake(t))

SpecWaitAsync == InitWaitAsync /\ [][NextWaitAsync]_vars

\* any N+1 consecutively recorded admission timestamps span at least a second
AdmissionsSpaced ==
    \A i \in 1..(Len(admitted) - calls_per_second) :
        admitted[i + calls_per_second] - admitted[i] >= SecondTicks

\* C26: with threads calling wait() in any interleaving, any N+1
\* consecutively recorded admission timestamps span at least 1 second, and
\* every wait() call eventually returns
C26_WaitLimitsAndReturns ==
    /\ [](phase = "wait" => AdmissionsSpaced)
    /\ \A t \in Callers : <>(callers[t].pc = "done")

\* every thread was admitted: two at once, and the others only after
\* sleeping, under the lock, until the oldest timestamp was a second old
C26_Witness ==
    /\ phase = "wait"
    /\ admitted = <<0, 0, 2, 2, 4>>
    /\ \A t \in Callers : callers[t].pc = "done"
    /\ \E t \in Callers : callers[t].wake = 2
    /\ \E t \in Callers : callers[t].wake = 4

\* C27: with coroutines awaiting wait_async(), no more than N calls are
\* admitted within any window shorter than one second
C27_AsyncLimits ==
    phase = "wait_async" =>
        \A i \in 1..Len(admitted) :
            Cardinality({j \in 1..Len(admitted) :
                            admitted[j] >= admitted[i]
                            /\ admitted[j] < admitted[i] + SecondTicks})
                <= calls_per_second

====
